---- MODULE Spec2Model ----
(***************************************************************************)
(* Model of fix_preferred_assets.py: the repair pass that leaves one       *)
(* preferred row per (entity_type, entity_id, type) group of the           *)
(* media_assets table.                                                     *)
(*                                                                         *)
(* The table is a sequence of rows in storage order; the id of a row is    *)
(* its position, which makes ids unique as the primary key does.  SQL NULL *)
(* and Python None in a column are the value NULL.  A fetched asset is the *)
(* tuple <<id, path, source, plugin_id, created_at>> of the SELECT of      *)
(* lines 43-48, and "no asset" (None) is the empty tuple.                  *)
(***************************************************************************)
EXTENDS Integers, Sequences, FiniteSets, TLC

VARIABLES
    missing,          \* which prerequisite of main() is absent: "none", "db", "assets"
    db,               \* committed content of media_assets (what any other connection reads)
    tx,               \* the table as the open connection sees it (uncommitted writes included)
    hashmod,          \* this process's hash(created_at) % 10, per timestamp string
    pc,               \* position of the script
    run,              \* number of the current invocation of the script
    conflicts,        \* fetchall() of the Scanner query, in the order returned
    idx,              \* position of the for loop in conflicts
    preferred_assets, \* fetchall() of the candidate query of the current group
    best_asset,       \* result of determine_best_asset for the current group
    fixed,            \* groups for which the demote/promote pair was issued (fixed_count of them)
    writes,           \* number of UPDATE statements issued by the current invocation
    remaining_conflicts, \* groups listed by verify_fix as errors
    stats,            \* <<total_count, preferred_count>> printed by verify_fix
    exit_code,        \* exit status of the process: -1 while it runs
    start_tbl,        \* history: committed table when the current invocation started
    prev_best         \* history: winner picked for the same rows by the previous process

vars == <<missing, db, tx, hashmod, pc, run, conflicts, idx, preferred_assets,
          best_asset, fixed, writes, remaining_conflicts, stats, exit_code,
          start_tbl, prev_best>>

-----------------------------------------------------------------------------
(* Bounds of the model *)

MaxRows == 4

MaxRuns == 2

MaxList == 2

MaxGroup == 3

-----------------------------------------------------------------------------
(* Values *)

NULL == "<NULL>"

None == <<>>

T1 == "2024-01-01T00:00:00Z"

T2 == "2024-06-01T00:00:00Z"

\* BINARY collation of the strings of the model, NULL first as SQLite sorts it
Collation == <<NULL, T1, T2, "album", "cover", "e1", "e2", "track">>

Rank(s) == CHOOSE i \in 1..Len(Collation) : Collation[i] = s

\* files present under assets_dir
ExistingFiles == {"a.jpg", "b.jpg"}

Paths == {"a.jpg", "gone.jpg"}

Sources == {"embedded", "plugin", "core", "other"}

PluginIds == {"musicbrainz_enricher", "core_enrichment", NULL}

HashResidues == 0..9

Range(s) == {s[i] : i \in 1..Len(s)}

\* all orderings of the finite set S
RECURSIVE Perms(_)
Perms(S) ==
    IF S = {} THEN {<<>>}
    ELSE UNION {{<<x>> \o p : p \in Perms(S \ {x})} : x \in S}

-----------------------------------------------------------------------------
(* SQL *)

\* the comparison "column = ?" of a WHERE clause: never true on NULL
SqlEq(a, b) == a # NULL /\ b # NULL /\ a = b

\* the GROUP BY key of a row (GROUP BY puts NULLs in one group)
KeyOf(r) == <<r.entity_type, r.entity_id, r.type>>

\* rows of group g with preferred = 1
PreferredIn(tbl, g) == {i \in 1..Len(tbl) : tbl[i].preferred /\ KeyOf(tbl[i]) = g}

PreferredCount(tbl, g) == Cardinality(PreferredIn(tbl, g))

\* WHERE preferred = 1 GROUP BY entity_type, entity_id, type HAVING COUNT(*) > 1
Scanner(tbl) ==
    {g \in {KeyOf(tbl[i]) : i \in 1..Len(tbl)} : PreferredCount(tbl, g) > 1}

\* ORDER BY entity_type, type: the orders in which the groups may be returned
ScanOrders(tbl) ==
    {s \in Perms(Scanner(tbl)) :
        \A i \in 1..(Len(s) - 1) :
            \/ Rank(s[i][1]) < Rank(s[i + 1][1])
            \/ Rank(s[i][1]) = Rank(s[i + 1][1]) /\ Rank(s[i][3]) <= Rank(s[i + 1][3])}

\* WHERE entity_type = ? AND entity_id = ? AND type = ?
MatchesKey(r, g) ==
    SqlEq(r.entity_type, g[1]) /\ SqlEq(r.entity_id, g[2]) /\ SqlEq(r.type, g[3])

AssetTuple(r) == <<r.id, r.path, r.source, r.plugin_id, r.created_at>>

\* the candidate query, ORDER BY created_at DESC: the orders it may return
CandidateOrders(tbl, g) ==
    {s \in Perms({AssetTuple(tbl[i]) : i \in {j \in 1..Len(tbl) :
                        MatchesKey(tbl[j], g) /\ tbl[j].preferred}}) :
        \A i \in 1..(Len(s) - 1) : Rank(s[i][5]) >= Rank(s[i + 1][5])}

\* variant: the demote without its entity_id condition
DemoteIgnoringEntityId(tbl, g) ==
    [i \in 1..Len(tbl) |->
        IF SqlEq(tbl[i].entity_type, g[1]) /\ SqlEq(tbl[i].type, g[3])
        THEN [tbl[i] EXCEPT !.preferred = FALSE] ELSE tbl[i]]

\* UPDATE media_assets SET preferred = 0 WHERE entity_type = ? AND entity_id = ? AND type = ?
DemoteAll(tbl, g) ==
    [i \in 1..Len(tbl) |->
        IF MatchesKey(tbl[i], g) THEN [tbl[i] EXCEPT !.preferred = FALSE] ELSE tbl[i]]

\* UPDATE media_assets SET preferred = 1 WHERE id = ?
PromoteBest(tbl, best_id) ==
    [i \in 1..Len(tbl) |->
        IF tbl[i].id = best_id THEN [tbl[i] EXCEPT !.preferred = TRUE] ELSE tbl[i]]

\* variant: a connection in autocommit mode (isolation_level=None)
AutocommitStatement(committed, working) == working

\* what other connections read after a statement of the open connection:
\* sqlite3.connect opens an implicit transaction before the first UPDATE and
\* nothing is committed before conn.commit()
AfterStatement(committed, working) == committed

-----------------------------------------------------------------------------
(* determine_best_asset *)

\* variant: the existence test negated
ExistenceBonusInverted(path) == IF path \notin ExistingFiles THEN 1000 ELSE 0

\* (assets_dir / path).exists()
ExistenceBonus(path) == IF path \in ExistingFiles THEN 1000 ELSE 0

\* variant: "plugin" weighted 95
SourcePriorityNarrow(source) ==
    CASE source = "embedded" -> 100
      [] source = "plugin" -> 95
      [] source = "core" -> 80
      [] OTHER -> 70

SourcePriority(source) ==
    CASE source = "embedded" -> 100
      [] source = "plugin" -> 90
      [] source = "core" -> 80
      [] OTHER -> 70

PluginPriority(plugin_id) ==
    CASE plugin_id = "musicbrainz_enricher" -> 20
      [] plugin_id = "core_enrichment" -> 15
      [] OTHER -> 10

\* hash(created_at) % 10 when created_at is truthy; h is the process's string hash
Recency(created_at, h) == IF created_at # NULL THEN h[created_at] ELSE 0

Score(asset, h) ==
    ExistenceBonus(asset[2]) + SourcePriority(asset[3])
        + PluginPriority(asset[4]) + Recency(asset[5], h)

\* scored_assets.sort(key=lambda x: x[0], reverse=True): stable, highest first
RECURSIVE SortByScore(_)
SortByScore(scored) ==
    IF scored = <<>> THEN <<>>
    ELSE LET sorted == SortByScore(SubSeq(scored, 1, Len(scored) - 1))
             x == scored[Len(scored)]
             \* x goes behind every element whose score is not smaller
             k == Cardinality({i \in 1..Len(sorted) : sorted[i][1] >= x[1]})
         IN SubSeq(sorted, 1, k) \o <<x>> \o SubSeq(sorted, k + 1, Len(sorted))

\* variant: the first fetched row is kept, whatever the scores
FirstFetched(assets, h) == IF assets = <<>> THEN None ELSE assets[1]

determine_best_asset(assets, h) ==
    IF assets = <<>> THEN None
    ELSE LET scored_assets == [i \in 1..Len(assets) |-> <<Score(assets[i], h), assets[i]>>]
         IN SortByScore(scored_assets)[1][2]

\* "if best_asset:": the demote and the promote are issued only with a best asset
ResolverWrites(best) == best # None

-----------------------------------------------------------------------------
(* The tables the runs start from *)

RunKeys == << <<"album", "e1", "cover">>, <<"track", "e2", "cover">>, <<"track", NULL, "cover">> >>

\* <<path, source, plugin_id, created_at>> of the rows of the catalogue
RunProfiles ==
    << <<"a.jpg", "core", NULL, T1>>,
       <<"b.jpg", "core", "core_enrichment", NULL>>,
       <<"gone.jpg", "embedded", "musicbrainz_enricher", T1>> >>

NumKinds == Len(RunKeys) * Len(RunProfiles) * 2

\* the row with identifier i of kind c (key, profile and flag decoded from c)
MediaAsset(i, c) ==
    LET k == RunKeys[(c \div (2 * Len(RunProfiles))) + 1]
        p == RunProfiles[((c \div 2) % Len(RunProfiles)) + 1]
    IN [id |-> i, entity_type |-> k[1], entity_id |-> k[2], type |-> k[3],
        path |-> p[1], source |-> p[2], plugin_id |-> p[3], created_at |-> p[4],
        preferred |-> (c % 2 = 1)]

\* the non-decreasing sequences of n kinds, none below lo
RECURSIVE KindSeqs(_, _)
KindSeqs(n, lo) ==
    IF n = 0 THEN {<<>>}
    ELSE UNION {{<<c>> \o f : f \in KindSeqs(n - 1, c)} : c \in lo..(NumKinds - 1)}

\* tables of n rows; identifiers are opaque, so one table stands for all its
\* renamings (kinds in non-decreasing order of identifier)
Tables(n) == {[i \in 1..n |-> MediaAsset(i, f[i])] : f \in KindSeqs(n, 0)}

RunTimestamps == {T1}

NoHash == [t \in RunTimestamps |-> 0]

PreferredTotal(tbl) == Cardinality({i \in 1..Len(tbl) : tbl[i].preferred})

-----------------------------------------------------------------------------
(* The script *)

Init ==
    /\ missing \in {"none", "db", "assets"}
    /\ db \in (IF missing = "none" THEN Tables(MaxRows) ELSE {<<>>})
    /\ tx = db
    /\ hashmod = NoHash
    /\ pc = "main"
    /\ run = 1
    /\ conflicts = <<>>
    /\ idx = 1
    /\ preferred_assets = <<>>
    /\ best_asset = None
    /\ fixed = {}
    /\ writes = 0
    /\ remaining_conflicts = {}
    /\ stats = <<0, 0>>
    /\ exit_code = -1
    /\ start_tbl = db
    /\ prev_best = None

\* main(): a missing database or assets directory is reported and main returns
main_missing_prerequisite ==
    /\ pc = "main"
    /\ missing # "none"
    /\ pc' = "exit"
    /\ exit_code' = 0
    /\ UNCHANGED <<missing, db, tx, hashmod, run, conflicts, idx, preferred_assets,
                   best_asset, fixed, writes, remaining_conflicts, stats,
                   start_tbl, prev_best>>

\* main() calls fix_preferred_assets, which connects; the string hash of the
\* process is whatever this interpreter start made it
main_connect ==
    /\ pc = "main"
    /\ missing = "none"
    /\ hashmod' \in [RunTimestamps -> HashResidues]
    /\ tx' = db
    /\ start_tbl' = db
    /\ pc' = "scan"
    /\ UNCHANGED <<missing, db, run, conflicts, idx, preferred_assets, best_asset,
                   fixed, writes, remaining_conflicts, stats, exit_code, prev_best>>

\* the Scanner query and fetchall()
scan_conflicts ==
    /\ pc = "scan"
    /\ conflicts' \in ScanOrders(tx)
    /\ idx' = 1
    /\ fixed' = {}
    /\ pc' = "loop"
    /\ UNCHANGED <<missing, db, tx, hashmod, run, preferred_assets, best_asset,
                   writes, remaining_conflicts, stats, exit_code, start_tbl, prev_best>>

\* one iteration up to "if best_asset": fetch the candidates and pick the best;
\* without a best asset the group is left as it is
select_candidates ==
    /\ pc = "loop"
    /\ idx <= Len(conflicts)
    /\ \E fetched \in CandidateOrders(tx, conflicts[idx]) :
          /\ preferred_assets' = fetched
          /\ best_asset' = determine_best_asset(fetched, hashmod)
    /\ IF ResolverWrites(best_asset')
       THEN pc' = "demote" /\ idx' = idx
       ELSE pc' = "loop" /\ idx' = idx + 1
    /\ UNCHANGED <<missing, db, tx, hashmod, run, conflicts, fixed, writes,
                   remaining_conflicts, stats, exit_code, start_tbl, prev_best>>

\* unset all preferred flags for this entity+type
demote_group ==
    /\ pc = "demote"
    /\ tx' = DemoteAll(tx, conflicts[idx])
    /\ db' = AfterStatement(db, tx')
    /\ writes' = writes + 1
    /\ pc' = "promote"
    /\ UNCHANGED <<missing, hashmod, run, conflicts, idx, preferred_assets, best_asset,
                   fixed, remaining_conflicts, stats, exit_code, start_tbl, prev_best>>

\* set the best asset as preferred, count the group as fixed
promote_best ==
    /\ pc = "promote"
    /\ tx' = PromoteBest(tx, best_asset[1])
    /\ db' = AfterStatement(db, tx')
    /\ writes' = writes + 1
    /\ fixed' = fixed \cup {conflicts[idx]}
    /\ idx' = idx + 1
    /\ pc' = "loop"
    /\ UNCHANGED <<missing, hashmod, run, conflicts, preferred_assets, best_asset,
                   remaining_conflicts, stats, exit_code, start_tbl, prev_best>>

\* conn.commit() and conn.close() after the loop
commit ==
    /\ pc = "loop"
    /\ idx > Len(conflicts)
    /\ db' = tx
    /\ pc' = "verify"
    /\ UNCHANGED <<missing, tx, hashmod, run, conflicts, idx, preferred_assets,
                   best_asset, fixed, writes, remaining_conflicts, stats, exit_code,
                   start_tbl, prev_best>>

\* verify_fix on a new connection; main returns after it and the process ends
verify_fix ==
    /\ pc = "verify"
    /\ remaining_conflicts' = Scanner(db)
    /\ stats' = <<Len(db), PreferredTotal(db)>>
    /\ exit_code' = 0
    /\ hashmod' = NoHash
    /\ pc' = "exit"
    /\ UNCHANGED <<missing, db, tx, run, conflicts, idx, preferred_assets, best_asset,
                   fixed, writes, start_tbl, prev_best>>

\* a statement raises (sqlite3.Error): the exception is not caught, the
\* process dies and the connection is dropped without commit
storage_error ==
    /\ pc \in {"scan", "loop", "demote", "promote", "verify"}
    /\ tx' = db
    /\ exit_code' = 1
    /\ hashmod' = NoHash
    /\ pc' = (IF pc = "verify" THEN "crashed_verify" ELSE "crashed")
    /\ UNCHANGED <<missing, db, run, conflicts, idx, preferred_assets, best_asset,
                   fixed, writes, remaining_conflicts, stats, start_tbl, prev_best>>

\* the script is started again on the data the previous run left
run_again ==
    /\ pc = "exit"
    /\ missing = "none"
    /\ run < MaxRuns
    /\ run' = run + 1
    /\ pc' = "main"
    /\ conflicts' = <<>>
    /\ idx' = 1
    /\ preferred_assets' = <<>>
    /\ best_asset' = None
    /\ fixed' = {}
    /\ writes' = 0
    /\ remaining_conflicts' = {}
    /\ stats' = <<0, 0>>
    /\ exit_code' = -1
    /\ start_tbl' = db
    /\ UNCHANGED <<missing, db, tx, hashmod, prev_best>>

Next ==
    \/ main_missing_prerequisite
    \/ main_connect
    \/ scan_conflicts
    \/ select_candidates
    \/ demote_group
    \/ promote_best
    \/ commit
    \/ verify_fix
    \/ storage_error
    \/ run_again

Spec == Init /\ [][Next]_vars

-----------------------------------------------------------------------------
(* determine_best_asset on its own: the candidate lists a fetch can return *)

\* lists of n assets over the attribute tuples D, ids by position, in an
\* order the candidate query can return (created_at descending)
FetchedLists(n, D) ==
    {s \in {[i \in 1..n |-> <<i>> \o f[i]] : f \in [1..n -> D]} :
        \A i \in 1..(n - 1) : Rank(s[i][5]) >= Rank(s[i + 1][5])}

ScoreLists(max) ==
    UNION {FetchedLists(n, Paths \X Sources \X PluginIds \X {T1, NULL}) : n \in 0..max}

OrderTimestamps == {T1, T2}

\* groups of rows with existing files and one plugin_id
OrderLists(max) ==
    UNION {UNION {FetchedLists(n, {"a.jpg"} \X Sources \X {p} \X OrderTimestamps) :
                      n \in 0..max} : p \in PluginIds}

InitCall(lists, timestamps) ==
    /\ preferred_assets \in lists
    /\ hashmod = [t \in timestamps |-> 0]
    /\ pc = "start"
    /\ missing = "none"
    /\ db = <<>>
    /\ tx = <<>>
    /\ run = 1
    /\ conflicts = <<>>
    /\ idx = 1
    /\ best_asset = None
    /\ fixed = {}
    /\ writes = 0
    /\ remaining_conflicts = {}
    /\ stats = <<0, 0>>
    /\ exit_code = -1
    /\ start_tbl = <<>>
    /\ prev_best = None

InitScore == InitCall(ScoreLists(MaxList), RunTimestamps)

InitOrder == InitCall(OrderLists(MaxGroup), OrderTimestamps)

\* best_asset = determine_best_asset(preferred_assets, assets_dir)
call_determine_best_asset ==
    /\ pc = "determine"
    /\ best_asset' = determine_best_asset(preferred_assets, hashmod)
    /\ pc' = "returned"
    /\ UNCHANGED <<missing, db, tx, hashmod, run, conflicts, idx, preferred_assets,
                   fixed, writes, remaining_conflicts, stats, exit_code, start_tbl,
                   prev_best>>

\* the interpreter starts: the string hash of the process is seeded, and with
\* it hash(created_at) % 10 of every timestamp
start_process ==
    /\ pc = "start"
    /\ hashmod' \in [DOMAIN hashmod -> HashResidues]
    /\ pc' = "determine"
    /\ UNCHANGED <<missing, db, tx, run, conflicts, idx, preferred_assets, best_asset,
                   fixed, writes, remaining_conflicts, stats, exit_code, start_tbl,
                   prev_best>>

\* the same rows are scored again by another process
new_process ==
    /\ pc = "returned"
    /\ run < MaxRuns
    /\ run' = run + 1
    /\ prev_best' = best_asset
    /\ pc' = "start"
    /\ UNCHANGED <<missing, db, tx, hashmod, conflicts, idx, preferred_assets,
                   best_asset, fixed, writes, remaining_conflicts, stats, exit_code,
                   start_tbl>>

NextCall == start_process \/ call_determine_best_asset

NextRehash == start_process \/ call_determine_best_asset \/ new_process

SpecScore == InitScore /\ [][NextCall]_vars

SpecOrder == InitOrder /\ [][NextCall]_vars

SpecRehash == InitOrder /\ [][NextRehash]_vars

-----------------------------------------------------------------------------
(* Properties of a run *)

\* C1: once the fix has committed, every group the Scanner returned has
\* exactly one preferred row
C1_InvariantRestored ==
    pc \in {"verify", "exit"} =>
        \A g \in Range(conflicts) : PreferredCount(db, g) = 1

\* C2: the second of two successive runs finds no conflict group and leaves
\* the table as the first run left it
C2_Idempotent ==
    (run >= 2 /\ pc = "exit") => (conflicts = <<>> /\ db = start_tbl)

\* C3 as stated: no committed state has a scanned group without a preferred
\* row, and after a failed run the groups resolved before the failure are
\* still resolved in the committed table
C3_PerGroupAtomic ==
    /\ \A g \in Range(conflicts) : PreferredCount(db, g) >= 1
    /\ pc = "crashed" => \A g \in fixed : PreferredCount(db, g) = 1

\* C3 amended: the writes of all groups are committed together at the end of
\* the run: no committed state has a scanned group without a preferred row,
\* and until the commit, a failure included, the committed table is the one
\* the run started from
C3_RunAtomic ==
    /\ \A g \in Range(conflicts) : PreferredCount(db, g) >= 1
    /\ pc \in {"scan", "loop", "demote", "promote", "crashed"} => db = start_tbl

\* a run failed after it had resolved a group
C3_Witness == pc = "crashed" /\ fixed # {} /\ db = start_tbl /\ tx = db

\* tbl differs from the table the run started from only in preferred flags,
\* cleared on rows of scanned groups
FrameOf(tbl) ==
    /\ Len(tbl) = Len(start_tbl)
    /\ \A i \in 1..Len(tbl) :
          /\ [tbl[i] EXCEPT !.preferred = start_tbl[i].preferred] = start_tbl[i]
          /\ tbl[i].preferred # start_tbl[i].preferred =>
                KeyOf(start_tbl[i]) \in Range(conflicts)
          /\ tbl[i].preferred => start_tbl[i].preferred

\* C4: a run inserts and deletes nothing and changes only preferred flags, only
\* on rows of scanned groups and never from false to true; without a conflict
\* group it writes nothing and the counts the Verifier prints are those of the
\* table before the run
C4_Frame ==
    /\ FrameOf(db)
    /\ FrameOf(tx)
    /\ conflicts = <<>> => writes = 0
    /\ (pc = "exit" /\ missing = "none" /\ conflicts = <<>>) =>
          stats = <<Len(start_tbl), PreferredTotal(start_tbl)>>
    /\ (pc = "exit" /\ missing = "none") =>
          stats[1] = Len(start_tbl) /\ writes = 2 * Cardinality(fixed)

\* a run has finished after changing flags
C4_Witness == pc = "exit" /\ fixed # {} /\ db # start_tbl /\ writes > 0

\* C10: the Verifier lists every remaining conflict group, the run fails when
\* there is one and succeeds when there is none, and the Verifier writes nothing
C10_ResidualReported ==
    (pc = "exit" /\ missing = "none") =>
        /\ remaining_conflicts = Scanner(db)
        /\ remaining_conflicts # {} => exit_code # 0
        /\ remaining_conflicts = {} => exit_code = 0
        /\ db = tx

-----------------------------------------------------------------------------
(* Properties of determine_best_asset *)

\* the total of the four components as the specification states them
StatedTotal(asset, h) ==
    (IF asset[2] \in ExistingFiles THEN 1000 ELSE 0)
    + (CASE asset[3] = "embedded" -> 100 [] asset[3] = "plugin" -> 90
         [] asset[3] = "core" -> 80 [] OTHER -> 70)
    + (CASE asset[4] = "musicbrainz_enricher" -> 20 [] asset[4] = "core_enrichment" -> 15
         [] OTHER -> 10)
    + Recency(asset[5], h)

\* C5: the winner of a non-empty candidate list is a row of the list whose
\* stated total is not below that of any row, the recency part being in 0..9;
\* an empty list has no winner and the Resolver issues no write for it
C5_WinnerIsMaximal ==
    pc = "returned" =>
        IF preferred_assets = <<>>
        THEN best_asset = None /\ ~ResolverWrites(best_asset)
        ELSE /\ best_asset \in Range(preferred_assets)
             /\ ResolverWrites(best_asset)
             /\ \A a \in Range(preferred_assets) :
                   /\ Score(a, hashmod) = StatedTotal(a, hashmod)
                   /\ Recency(a[5], hashmod) \in 0..9
                   /\ StatedTotal(best_asset, hashmod) >= StatedTotal(a, hashmod)

\* a winner that is not the first fetched row
C5_Witness ==
    /\ pc = "returned"
    /\ Len(preferred_assets) = 2
    /\ best_asset = preferred_assets[2]
    /\ Score(best_asset, hashmod) > Score(preferred_assets[1], hashmod)

SourceTrust(source) ==
    CASE source = "embedded" -> 4 [] source = "plugin" -> 3 [] source = "core" -> 2
      [] OTHER -> 1

\* C7: with all files existing and equal plugin bonus, a more trusted source
\* scores strictly more whatever the recency values, and the winner's source
\* is the most trusted of the list
C7_SourceOrdering ==
    (\A a, b \in Range(preferred_assets) :
        a[2] \in ExistingFiles /\ PluginPriority(a[4]) = PluginPriority(b[4])) =>
        /\ \A a, b \in Range(preferred_assets) :
              SourceTrust(a[3]) > SourceTrust(b[3]) => Score(a, hashmod) > Score(b, hashmod)
        /\ (pc = "returned" /\ preferred_assets # <<>>) =>
              \A a \in Range(preferred_assets) : SourceTrust(best_asset[3]) >= SourceTrust(a[3])

\* rows from plugin, core and embedded without plugin_id: embedded wins although
\* its recency value is 0 and that of the others is 9
C7_Witness ==
    /\ pc = "returned"
    /\ Len(preferred_assets) = 3
    /\ {a[3] : a \in Range(preferred_assets)} = {"plugin", "core", "embedded"}
    /\ \A a \in Range(preferred_assets) : a[4] = NULL
    /\ best_asset[3] = "embedded"
    /\ Recency(best_asset[5], hashmod) = 0
    /\ \E a \in Range(preferred_assets) : Recency(a[5], hashmod) = 9

\* C8: the same candidate rows and files give the same winner in every process
C8_SameWinnerEveryRun ==
    (pc = "returned" /\ run >= 2) => best_asset = prev_best

\* C9: with equal existence, source weight and plugin weight the winner has the
\* latest created_at, that of the first fetched row
C9_LatestWins ==
    (/\ pc = "returned"
     /\ preferred_assets # <<>>
     /\ \A a, b \in Range(preferred_assets) :
           /\ (a[2] \in ExistingFiles) = (b[2] \in ExistingFiles)
           /\ SourcePriority(a[3]) = SourcePriority(b[3])
           /\ PluginPriority(a[4]) = PluginPriority(b[4]))
    => best_asset[5] = preferred_assets[1][5]

====
